---- MODULE Spec2Model ----
(***************************************************************************)
(* EntityPhysics.js: the integrator (stepPosition), the collision detector *)
(* (collide and its three shape tests) and the collision resolver          *)
(* (resolveCollidingState and its three sub-algorithms).                   *)
(*                                                                         *)
(* Numbers.  The collision routines are evaluated in exact arithmetic on   *)
(* integers that count units of COLLISION_OFFSET / 80 (so the source's     *)
(* 0.001 is 80 units).  Entities are placed on a grid of Grid units, and   *)
(* an action of the resolver is taken only where every quotient the code   *)
(* forms is a whole number of units (the guards named Exact...), so no     *)
(* result of the model is a rounded one.  stepPosition multiplies, and its *)
(* claims are about equality of results, so there rounding is modelled     *)
(* explicitly: see fl below.                                               *)
(***************************************************************************)
EXTENDS Integers, Sequences, FiniteSets, TLC

VARIABLES ents, orig, before, log

vars == <<ents, orig, before, log>>

(* ------------------------------ bounds -------------------------------- *)

\* entity2 is placed at 0..MaxCoord grid steps on each axis
MaxCoord == 4
\* rectangle widths and heights are 0..MaxSize double grid steps
MaxSize == 2
\* circle radii are 0..MaxRadius grid steps
MaxRadius == 5
\* calls made on one pair of entities
MaxCalls == 2
\* the significand of a number of stepPosition has MantBits bits
MantBits == 3
\* the smallest positive number of stepPosition is 2^-FracBits
FracBits == 2
\* positions, velocities and accelerations stepped are -MaxStep..MaxStep
MaxStep == 3
\* time steps are -MaxDt..MaxDt halves
MaxDt == 2

(* ----------------------------- constants ------------------------------ *)

COLLISION_OFFSET == 80

Grid == COLLISION_OFFSET \div 2

Coords == {Grid * c : c \in 0..MaxCoord}
Sizes == {2 * Grid * k : k \in 0..MaxSize}
Radii == {Grid * k : k \in 0..MaxRadius}
HbOffsets == {0, Grid}

(* --------------------------- Math.* helpers --------------------------- *)

min(a, b) == IF a <= b THEN a ELSE b

max(a, b) == IF a >= b THEN a ELSE b

abs(a) == IF a < 0 THEN -a ELSE a

RECURSIVE SqrtSearch(_, _, _)
\* the largest r in lo..hi with r * r <= n
SqrtSearch(n, lo, hi) ==
  IF lo >= hi THEN lo
  ELSE LET mid == (lo + hi + 1) \div 2
       IN IF mid * mid <= n THEN SqrtSearch(n, mid, hi)
          ELSE SqrtSearch(n, lo, mid - 1)

\* Math.sqrt on the squares the model forms (exact where n is a square)
sqrt(n) == SqrtSearch(n, 0, min(n, 40000))

IsSquare(n) == sqrt(n) * sqrt(n) = n

(* ------------------------------ values -------------------------------- *)

\* what a call returns: a number, a boolean or undefined
Num(n) == [kind |-> "number", num |-> n, bool |-> FALSE]
Bool(b) == [kind |-> "boolean", num |-> 0, bool |-> b]
Undefined == [kind |-> "undefined", num |-> 0, bool |-> FALSE]

\* an entity as the caller supplies it
Circle(x, y, hx, hy, r, anchored) ==
  [x |-> x, y |-> y, vx |-> 0, vy |-> 0, ax |-> 0, ay |-> 0,
   isCircle |-> TRUE, isAnchored |-> anchored,
   hitBounds |-> [x |-> hx, y |-> hy, r |-> r]]

Rect(x, y, hx, hy, w, h, anchored) ==
  [x |-> x, y |-> y, vx |-> 0, vy |-> 0, ax |-> 0, ay |-> 0,
   isCircle |-> FALSE, isAnchored |-> anchored,
   hitBounds |-> [x |-> hx, y |-> hy, w |-> w, h |-> h]]

(* ----------------------------- detector ------------------------------- *)

circleCollidesWithCircle(circ1, circ2) ==
  LET b1 == circ1.hitBounds
      x1 == circ1.x + b1.x
      y1 == circ1.y + b1.y
      r1 == b1.r
      b2 == circ2.hitBounds
      x2 == circ2.x + b2.x
      y2 == circ2.y + b2.y
      r2 == b2.r
      dx == x2 - x1
      dy == y2 - y1
      distSqrd == dx * dx + dy * dy
      distColl == r1 + r2
      distCollSqrd == distColl * distColl
  IN distSqrd <= distCollSqrd

\* the mutant of circleCollidesWithRect: the corner case compares with <
circleCollidesWithRectStrictCorner(circ, rect) ==
  LET cb == circ.hitBounds
      cx == circ.x + cb.x
      cy == circ.y + cb.y
      cr == cb.r
      rb == rect.hitBounds
      rwHalf == rb.w \div 2
      rhHalf == rb.h \div 2
      rx == rect.x + rb.x + rwHalf
      ry == rect.y + rb.y + rhHalf
      dx == abs(cx - rx)
      dy == abs(cy - ry)
      dcx == dx - rwHalf
      dcy == dy - rhHalf
  IN IF dx > rwHalf + cr \/ dy > rhHalf + cr THEN FALSE
     ELSE IF dx <= rwHalf \/ dy <= rhHalf THEN TRUE
     ELSE dcx * dcx + dcy * dcy < cr * cr

circleCollidesWithRect(circ, rect) ==
  LET cb == circ.hitBounds
      cx == circ.x + cb.x
      cy == circ.y + cb.y
      cr == cb.r
      rb == rect.hitBounds
      rwHalf == rb.w \div 2
      rhHalf == rb.h \div 2
      rx == rect.x + rb.x + rwHalf
      ry == rect.y + rb.y + rhHalf
      dx == abs(cx - rx)
      dy == abs(cy - ry)
      dcx == dx - rwHalf
      dcy == dy - rhHalf
      cornerDistSqrd == dcx * dcx + dcy * dcy
  IN IF dx > rwHalf + cr \/ dy > rhHalf + cr THEN FALSE
     ELSE IF dx <= rwHalf \/ dy <= rhHalf THEN TRUE
     ELSE cornerDistSqrd <= cr * cr

\* the mutant of rectCollidesWithRect: the first comparison is strict
rectCollidesWithRectStrict(rect1, rect2) ==
  LET b1 == rect1.hitBounds
      x1 == rect1.x + b1.x
      y1 == rect1.y + b1.y
      xf1 == x1 + b1.w
      yf1 == y1 + b1.h
      b2 == rect2.hitBounds
      x2 == rect2.x + b2.x
      y2 == rect2.y + b2.y
      xf2 == x2 + b2.w
      yf2 == y2 + b2.h
  IN x1 < xf2 /\ xf1 >= x2 /\ y1 <= yf2 /\ yf1 >= y2

rectCollidesWithRect(rect1, rect2) ==
  LET b1 == rect1.hitBounds
      x1 == rect1.x + b1.x
      y1 == rect1.y + b1.y
      xf1 == x1 + b1.w
      yf1 == y1 + b1.h
      b2 == rect2.hitBounds
      x2 == rect2.x + b2.x
      y2 == rect2.y + b2.y
      xf2 == x2 + b2.w
      yf2 == y2 + b2.h
  IN x1 <= xf2 /\ xf1 >= x2 /\ y1 <= yf2 /\ yf1 >= y2

collide(entity1, entity2) ==
  IF entity1.isCircle
  THEN IF entity2.isCircle
       THEN circleCollidesWithCircle(entity1, entity2)
       ELSE circleCollidesWithRect(entity1, entity2)
  ELSE IF entity2.isCircle
       THEN circleCollidesWithRect(entity2, entity1)
       ELSE rectCollidesWithRect(entity1, entity2)

(* ----------------------------- resolver ------------------------------- *)

\* mult * v for a multiplier kept as its double (0, 1 or 2 for 0, 0.5, 1)
Scale(mult2, v) == (mult2 * v) \div 2

\* the mutant of mult: anchoring is ignored
multUnanchored(anchored1, anchored2) == [m1 |-> 1, m2 |-> 1]

\* mult1 and mult2, doubled: 0.5 each unless exactly one entity is anchored
mult(anchored1, anchored2) ==
  IF anchored1 /\ anchored2 THEN [m1 |-> 1, m2 |-> 1]
  ELSE IF anchored1 THEN [m1 |-> 0, m2 |-> 2]
  ELSE IF anchored2 THEN [m1 |-> 2, m2 |-> 0]
  ELSE [m1 |-> 1, m2 |-> 1]

\* mult * dd * (d / dist)
Push(mult2, dd, d, dist) == (mult2 * dd * d) \div (2 * dist)

resolveCollidingCircles(circ1, circ2) ==
  LET b1 == circ1.hitBounds
      x1 == circ1.x + b1.x
      y1 == circ1.y + b1.y
      r1 == b1.r
      b2 == circ2.hitBounds
      x2 == circ2.x + b2.x
      y2 == circ2.y + b2.y
      r2 == b2.r
      dx0 == x2 - x1
      dy == y2 - y1
      dist0 == sqrt(dx0 * dx0 + dy * dy)
      distColl == r1 + r2 + COLLISION_OFFSET
      dx == IF dist0 = 0 THEN COLLISION_OFFSET ELSE dx0
      dist == IF dist0 = 0 THEN COLLISION_OFFSET ELSE dist0
      dd == IF circ1.isAnchored /\ circ2.isAnchored THEN 0 ELSE distColl - dist
      m == mult(circ1.isAnchored, circ2.isAnchored)
  IN [e1 |-> [circ1 EXCEPT !.x = @ + Push(m.m1, dd, -dx, dist),
                           !.y = @ + Push(m.m1, dd, -dy, dist)],
      e2 |-> [circ2 EXCEPT !.x = @ + Push(m.m2, dd, dx, dist),
                           !.y = @ + Push(m.m2, dd, dy, dist)],
      ret |-> Num(dd)]

\* the body is empty: nothing is moved and nothing is returned
resolveCollidingCircleRect(circ, rect) ==
  [e1 |-> circ, e2 |-> rect, ret |-> Undefined]

\* the mutant of overlap: the collision offset is not subtracted
overlapNoOffset(d1, d2) ==
  IF d1 <= 0 /\ d2 <= 0 THEN max(d1, d2)
  ELSE IF d1 <= 0 THEN d1
  ELSE IF d2 <= 0 THEN d2
  ELSE 1

\* the shallowest overlap on one axis; "positive value means no overlap"
overlap(d1, d2) ==
  IF d1 <= 0 /\ d2 <= 0 THEN max(d1, d2) - COLLISION_OFFSET
  ELSE IF d1 <= 0 THEN d1 - COLLISION_OFFSET
  ELSE IF d2 <= 0 THEN d2 - COLLISION_OFFSET
  ELSE 1

\* the mutant of stepOut: equal overlaps step out along x
stepOutTieX(dx, dy) ==
  IF dx <= 0 /\ dy <= 0
  THEN IF dx >= dy THEN [dx |-> dx, dy |-> 0] ELSE [dx |-> 0, dy |-> dy]
  ELSE IF dx <= 0 THEN [dx |-> dx, dy |-> 0]
  ELSE IF dy <= 0 THEN [dx |-> 0, dy |-> dy]
  ELSE [dx |-> 0, dy |-> 0]

\* step out in only one direction, pick the smallest overlap
stepOut(dx, dy) ==
  IF dx <= 0 /\ dy <= 0
  THEN IF dx > dy THEN [dx |-> dx, dy |-> 0] ELSE [dx |-> 0, dy |-> dy]
  ELSE IF dx <= 0 THEN [dx |-> dx, dy |-> 0]
  ELSE IF dy <= 0 THEN [dx |-> 0, dy |-> dy]
  ELSE [dx |-> 0, dy |-> 0]

resolveCollidingRects(rect1, rect2) ==
  LET b1 == rect1.hitBounds
      x1 == rect1.x + b1.x
      y1 == rect1.y + b1.y
      w1 == b1.w
      h1 == b1.h
      xf1 == x1 + w1
      yf1 == y1 + h1
      b2 == rect2.hitBounds
      x2 == rect2.x + b2.x
      y2 == rect2.y + b2.y
      w2 == b2.w
      h2 == b2.h
      xf2 == x2 + w2
      yf2 == y2 + h2
      out == stepOut(overlap(x1 - xf2, x2 - xf1), overlap(y1 - yf2, y2 - yf1))
      both == rect1.isAnchored /\ rect2.isAnchored
      dx == IF both THEN 0 ELSE out.dx
      dy == IF both THEN 0 ELSE out.dy
      m == mult(rect1.isAnchored, rect2.isAnchored)
      cx1 == x1 + w1 \div 2
      cx2 == x2 + w2 \div 2
      cy1 == y1 + h1 \div 2
      cy2 == y2 + h2 \div 2
      sign == IF (dx # 0 /\ cx1 > cx2) \/ (dy # 0 /\ cy1 > cy2) THEN -1 ELSE 1
  IN [e1 |-> [rect1 EXCEPT !.x = @ + Scale(m.m1, sign * dx),
                           !.y = @ + Scale(m.m1, sign * dy)],
      e2 |-> [rect2 EXCEPT !.x = @ + Scale(m.m2, sign * (-dx)),
                           !.y = @ + Scale(m.m2, sign * (-dy))],
      ret |-> Num(dx + dy)]

\* the dispatch; the circle is passed first, so the results are swapped back
resolveCollidingState(entity1, entity2) ==
  IF entity1.isCircle
  THEN IF entity2.isCircle
       THEN resolveCollidingCircles(entity1, entity2)
       ELSE resolveCollidingCircleRect(entity1, entity2)
  ELSE IF entity2.isCircle
       THEN LET r == resolveCollidingCircleRect(entity2, entity1)
            IN [e1 |-> r.e2, e2 |-> r.e1, ret |-> r.ret]
       ELSE resolveCollidingRects(entity1, entity2)

\* every quotient resolveCollidingCircles forms is a whole number of units
ExactCircles(circ1, circ2) ==
  LET dx0 == (circ2.x + circ2.hitBounds.x) - (circ1.x + circ1.hitBounds.x)
      dy == (circ2.y + circ2.hitBounds.y) - (circ1.y + circ1.hitBounds.y)
      n == dx0 * dx0 + dy * dy
      dist == IF n = 0 THEN COLLISION_OFFSET ELSE sqrt(n)
      dx == IF n = 0 THEN COLLISION_OFFSET ELSE dx0
      dd == circ1.hitBounds.r + circ2.hitBounds.r + COLLISION_OFFSET - dist
  IN /\ IsSquare(n)
     /\ \A d \in {dx, dy} : \A m2 \in {1, 2} : (m2 * dd * d) % (2 * dist) = 0

\* every half resolveCollidingRects forms is a whole number of units
ExactRects(rect1, rect2) ==
  LET r == resolveCollidingRects([rect1 EXCEPT !.isAnchored = TRUE],
                                 [rect2 EXCEPT !.isAnchored = FALSE])
  IN /\ \A v \in {rect1.hitBounds.w, rect1.hitBounds.h,
                  rect2.hitBounds.w, rect2.hitBounds.h} : v % 2 = 0
     /\ (r.e2.x - rect2.x) % 2 = 0
     /\ (r.e2.y - rect2.y) % 2 = 0

Exact(entity1, entity2) ==
  IF entity1.isCircle /\ entity2.isCircle THEN ExactCircles(entity1, entity2)
  ELSE IF ~entity1.isCircle /\ ~entity2.isCircle THEN ExactRects(entity1, entity2)
  ELSE TRUE

(* ------------------------- the caller's entities ---------------------- *)

Circles(xs, ys, hxs, hys) ==
  {Circle(x, y, hx, hy, r, a) :
     x \in xs, y \in ys, hx \in hxs, hy \in hys, r \in Radii, a \in BOOLEAN}

Rects(xs, ys, hxs, hys) ==
  {Rect(x, y, hx, hy, w, h, a) :
     x \in xs, y \in ys, hx \in hxs, hy \in hys, w \in Sizes, h \in Sizes,
     a \in BOOLEAN}

Squares(xs, ys, hxs, hys) ==
  {Rect(x, y, hx, hy, w, w, a) :
     x \in xs, y \in ys, hx \in hxs, hy \in hys, w \in Sizes, a \in BOOLEAN}

Call(op, a, b, dt, ret) == [op |-> op, a |-> a, b |-> b, dt |-> dt, ret |-> ret]

\* the last call made
Last == log[Len(log)]
Called(op) == log # <<>> /\ Last.op = op

Start(e1, e2) ==
  /\ ents = <<e1, e2>>
  /\ orig = ents
  /\ before = ents
  /\ log = <<>>

(* ------------------------------ actions ------------------------------- *)

\* collide(ents[a], ents[b])
Collide(a, b) ==
  /\ log = <<>>
  /\ before' = ents
  /\ ents' = ents
  /\ log' = Append(log, Call("collide", a, b, 0, Bool(collide(ents[a], ents[b]))))
  /\ UNCHANGED orig

\* resolveCollidingRects(ents[a], ents[b])
ResolveRects(a, b) ==
  /\ log = <<>>
  /\ ~ents[a].isCircle /\ ~ents[b].isCircle
  /\ ExactRects(ents[a], ents[b])
  /\ LET r == resolveCollidingRects(ents[a], ents[b])
     IN /\ ents' = [ents EXCEPT ![a] = r.e1, ![b] = r.e2]
        /\ log' = Append(log, Call("resolveCollidingRects", a, b, 0, r.ret))
  /\ before' = ents
  /\ UNCHANGED orig

\* resolveCollidingState(ents[a], ents[b])
ResolveState(a, b) ==
  /\ Len(log) < MaxCalls
  /\ Exact(ents[a], ents[b])
  /\ LET r == resolveCollidingState(ents[a], ents[b])
     IN /\ ents' = [ents EXCEPT ![a] = r.e1, ![b] = r.e2]
        /\ log' = Append(log, Call("resolveCollidingState", a, b, 0, r.ret))
  /\ before' = ents
  /\ UNCHANGED orig

Orders == {<<1, 2>>, <<2, 1>>}

(* --------------------------- specifications --------------------------- *)

\* the resolver's dispatch on every shape-kind combination, in sequences
Init ==
  \E e1 \in Circles({0}, {0}, HbOffsets, {0}) \cup Squares({0}, {0}, HbOffsets, {0}) :
    \E e2 \in Circles(Coords, Coords, {0}, {0}) \cup Squares(Coords, Coords, {0}, {0}) :
      Start(e1, e2)

Next == \E o \in Orders : ResolveState(o[1], o[2])

Spec == Init /\ [][Next]_vars

\* resolveCollidingRects on two rectangles
InitRects ==
  \E e1 \in Rects({0}, {0}, HbOffsets, {0}) :
    \E e2 \in Rects(Coords, Coords, {0}, HbOffsets) :
      Start(e1, e2)

NextRects == \E o \in Orders : ResolveRects(o[1], o[2])

SpecRects == InitRects /\ [][NextRects]_vars

\* the detector on every shape-kind combination
InitCollide ==
  \E e1 \in Circles({0}, {0}, HbOffsets, {0}) \cup Rects({0}, {0}, HbOffsets, {0}) :
    \E e2 \in Circles(Coords, Coords, {0}, HbOffsets) \cup Rects(Coords, Coords, {0}, HbOffsets) :
      /\ e1.isAnchored /\ ~e2.isAnchored
      /\ Start(e1, e2)

NextCollide == \E o \in Orders : Collide(o[1], o[2])

SpecCollide == InitCollide /\ [][NextCollide]_vars


(* ---------------------------- integrator ------------------------------ *)
(* stepPosition's numbers are binary floating-point numbers as JavaScript's *)
(* are, with a significand of MantBits bits instead of 53 and a smallest    *)
(* positive number of 2^-FracBits: an integer n stands for n * 2^-FracBits, *)
(* and every operation returns the representable number nearest to the      *)
(* exact result, a tie going to the even significand (IEEE 754's default).  *)

RECURSIVE Pow2(_)
Pow2(k) == IF k <= 0 THEN 1 ELSE 2 * Pow2(k - 1)

RECURSIVE BitLen(_)
\* the number of bits of n >= 0
BitLen(n) == IF n = 0 THEN 0 ELSE 1 + BitLen(n \div 2)

One == Pow2(FracBits)

\* the spacing of the representable numbers around num / den, in 1/den
Quantum(num, den) == max(den, Pow2(BitLen(abs(num)) - MantBits))

\* num / den rounded to the nearest representable number, ties to even
fl(num, den) ==
  LET q == Quantum(num, den)
      n == abs(num)
      k == n \div q
      rem == n - k * q
      up == 2 * rem > q \/ (2 * rem = q /\ k % 2 = 1)
      r == ((IF up THEN k + 1 ELSE k) * q) \div den
  IN IF num < 0 THEN -r ELSE r

\* a * b, a / 2 and a + b as the machine computes them
Mul(a, b) == fl(a * b, One)
Halve(a) == fl(a, 2)
Add(a, b) == fl(a + b, 1)

\* the mutant of stepPosition: the whole velocity is added before the update
stepPositionEuler(entity, dt) ==
  [entity EXCEPT !.x = Add(entity.x, Mul(dt, entity.vx)),
                 !.vx = Add(entity.vx, Mul(dt, entity.ax)),
                 !.y = Add(entity.y, Mul(dt, entity.vy)),
                 !.vy = Add(entity.vy, Mul(dt, entity.ay))]

stepPosition(entity, dt) ==
  LET x1 == Add(entity.x, Halve(Mul(dt, entity.vx)))
      vx1 == Add(entity.vx, Mul(dt, entity.ax))
      x2 == Add(x1, Halve(Mul(dt, vx1)))
      y1 == Add(entity.y, Halve(Mul(dt, entity.vy)))
      vy1 == Add(entity.vy, Mul(dt, entity.ay))
      y2 == Add(y1, Halve(Mul(dt, vy1)))
  IN [entity EXCEPT !.x = x2, !.vx = vx1, !.y = y2, !.vy = vy1]

\* stepPosition(ents[a], dt)
StepPosition(a, dt) ==
  /\ log = <<>>
  /\ ents' = [ents EXCEPT ![a] = stepPosition(ents[a], dt)]
  /\ log' = Append(log, Call("stepPosition", a, a, dt, Undefined))
  /\ before' = ents
  /\ UNCHANGED orig

\* stepPosition(ents[a], -dt), after a step of dt
StepBack(a) ==
  /\ Len(log) = 1
  /\ Last.op = "stepPosition" /\ Last.a = a
  /\ ents' = [ents EXCEPT ![a] = stepPosition(ents[a], -Last.dt)]
  /\ log' = Append(log, Call("stepPosition", a, a, -Last.dt, Undefined))
  /\ before' = ents
  /\ UNCHANGED orig

\* the numbers an entity is given: whole numbers, all representable
StepValues == {n * One : n \in -MaxStep..MaxStep}
Dts == {(n * One) \div 2 : n \in -MaxDt..MaxDt}

Moving(e, x, vx, ax, vy, ay) ==
  [e EXCEPT !.x = x, !.vx = vx, !.ax = ax, !.vy = vy, !.ay = ay]

InitStep ==
  \E x \in StepValues, vx \in StepValues, ax \in StepValues :
    \E vy \in {-One, 0, One}, ay \in {0, One} :
      Start(Moving(Circle(0, 0, 0, 0, Grid, TRUE), x, vx, ax, vy, ay),
            Rect(0, 0, 0, 0, Grid, Grid, FALSE))

NextStep ==
  \/ \E dt \in Dts : StepPosition(1, dt)
  \/ StepBack(1)

SpecStep == InitStep /\ [][NextStep]_vars

(* ------------------- vocabulary of the properties --------------------- *)

\* the arguments of the last call, as passed and as left by the call
Arg1 == before[Last.a]
Arg2 == before[Last.b]
Res1 == ents[Last.a]
Res2 == ents[Last.b]

\* the effective rectangle of an entity: position + hitBounds offset
Left(e) == e.x + e.hitBounds.x
Right(e) == e.x + e.hitBounds.x + e.hitBounds.w
Top(e) == e.y + e.hitBounds.y
Bottom(e) == e.y + e.hitBounds.y + e.hitBounds.h
\* the effective centre of a circle
CentreX(e) == e.x + e.hitBounds.x
CentreY(e) == e.y + e.hitBounds.y

\* the gap between two effective rectangles on each axis (negative: overlap)
GapX(e1, e2) == max(Left(e1) - Right(e2), Left(e2) - Right(e1))
GapY(e1, e2) == max(Top(e1) - Bottom(e2), Top(e2) - Bottom(e1))

BothAnchored == Arg1.isAnchored /\ Arg2.isAnchored
MovedX == Res1.x # Arg1.x \/ Res2.x # Arg2.x
MovedY == Res1.y # Arg1.y \/ Res2.y # Arg2.y

\* one effective rectangle strictly inside the other
Inside(e1, e2) ==
  /\ Left(e2) < Left(e1) /\ Right(e1) < Right(e2)
  /\ Top(e2) < Top(e1) /\ Bottom(e1) < Bottom(e2)

(* ------------------------------- C1 ----------------------------------- *)

\* C1: two rectangles that collide (touching and containment included) and
\* are not both anchored no longer collide after one resolveCollidingRects:
\* on the axis that was corrected the effective rectangles are exactly
\* COLLISION_OFFSET apart.
C1_RectsSeparated ==
  (Called("resolveCollidingRects") /\ rectCollidesWithRect(Arg1, Arg2)
     /\ ~BothAnchored)
  => /\ ~rectCollidesWithRect(Res1, Res2)
     /\ MovedX \/ MovedY
     /\ MovedX => GapX(Res1, Res2) = COLLISION_OFFSET
     /\ MovedY => GapY(Res1, Res2) = COLLISION_OFFSET

\* a rectangle strictly inside the other has been pushed out of it
C1_Witness ==
  /\ Called("resolveCollidingRects") /\ ~BothAnchored
  /\ Inside(Arg2, Arg1)
  /\ ~rectCollidesWithRect(Res1, Res2)

(* ------------------------------- C9 ----------------------------------- *)

\* the penetration magnitude of two colliding rectangles on each axis
PenX(e1, e2) == min(Right(e2) - Left(e1), Right(e1) - Left(e2))
PenY(e1, e2) == min(Bottom(e2) - Top(e1), Bottom(e1) - Top(e2))

\* rect1's centre is greater than rect2's (centres compared doubled)
CentreGreaterX(e1, e2) == Left(e1) + Right(e1) > Left(e2) + Right(e2)
CentreGreaterY(e1, e2) == Top(e1) + Bottom(e1) > Top(e2) + Bottom(e2)

\* each rectangle moved away from the other, or stayed if it is anchored
Away(d1, d2, greater) ==
  /\ IF Arg1.isAnchored THEN d1 = 0 ELSE IF greater THEN d1 > 0 ELSE d1 < 0
  /\ IF Arg2.isAnchored THEN d2 = 0 ELSE IF greater THEN d2 < 0 ELSE d2 > 0

C10_NoOverlapNoOp ==
  (Called("resolveCollidingRects") /\ ~BothAnchored
     /\ GapX(Arg1, Arg2) > 0 /\ GapY(Arg1, Arg2) > 0)
  => /\ ents = before
     /\ Last.ret = Num(0)

(* ------------------------------- C3 ----------------------------------- *)

\* C3: whatever resolveCollidingState calls are made, in either argument
\* order and on any shapes, an anchored entity is where it was at the start.
C3_AnchoredNeverMoved ==
  \A i \in {1, 2} :
    orig[i].isAnchored => ents[i].x = orig[i].x /\ ents[i].y = orig[i].y

\* one entity is anchored and the resolver has moved the other
C3_Witness ==
  /\ Called("resolveCollidingState")
  /\ Arg1.isAnchored # Arg2.isAnchored
  /\ ents # before

(* ------------------------------- C4 ----------------------------------- *)

\* C4: with both entities anchored resolveCollidingState moves nothing and
\* returns 0, whatever the two shapes are.
C4_BothAnchoredNoOp ==
  (Called("resolveCollidingState") /\ BothAnchored)
  => /\ ents = before
     /\ Last.ret = Num(0)

(* ------------------------------- C5 ----------------------------------- *)

\* the distance between an entity's positions before and after the call
Moved(e, f) == sqrt((f.x - e.x) * (f.x - e.x) + (f.y - e.y) * (f.y - e.y))

\* C5: for every colliding pair resolveCollidingState returns a number >= 0,
\* the sum of the distances by which the two entities were moved.
C5_ReturnsDistanceMoved ==
  (Called("resolveCollidingState") /\ collide(Arg1, Arg2))
  => /\ Last.ret.kind = "number"
     /\ Last.ret.num >= 0
     /\ Last.ret.num = Moved(Arg1, Res1) + Moved(Arg2, Res2)

(* ------------------------------- C2 ----------------------------------- *)

CentreDistSqrd(e1, e2) ==
  (CentreX(e2) - CentreX(e1)) * (CentreX(e2) - CentreX(e1))
  + (CentreY(e2) - CentreY(e1)) * (CentreY(e2) - CentreY(e1))

TwoCircles == Arg1.isCircle /\ Arg2.isCircle

\* C2: two colliding circles, not both anchored and concentric ones included,
\* are r1 + r2 + COLLISION_OFFSET apart after one resolveCollidingCircles, so
\* they no longer collide.
C2_CirclesSeparated ==
  (Called("resolveCollidingState") /\ TwoCircles
     /\ circleCollidesWithCircle(Arg1, Arg2) /\ ~BothAnchored)
  => /\ ~circleCollidesWithCircle(Res1, Res2)
     /\ CentreDistSqrd(Res1, Res2)
          = (Arg1.hitBounds.r + Arg2.hitBounds.r + COLLISION_OFFSET)
            * (Arg1.hitBounds.r + Arg2.hitBounds.r + COLLISION_OFFSET)

(* ------------------------------- C6 ----------------------------------- *)

\* C6: collide gives the same answer with its arguments swapped, on every
\* shape-kind combination, and leaves both entities as they were.
C6_CollideSymmetric ==
  Called("collide")
  => /\ Last.ret = Bool(collide(Arg2, Arg1))
     /\ ents = before

\* collide(rect, circle) found a collision
C6_Witness ==
  /\ Called("collide")
  /\ ~Arg1.isCircle /\ Arg2.isCircle
  /\ Last.ret = Bool(TRUE)
  /\ ents = before

(* ------------------------------- C7 ----------------------------------- *)

\* v clamped to lo..hi
Clamp(v, lo, hi) == max(lo, min(v, hi))

\* the squared distance from the circle's centre to the closest point of the
\* effective rectangle
ClosestDistSqrd(circ, rect) ==
  LET px == Clamp(CentreX(circ), Left(rect), Right(rect))
      py == Clamp(CentreY(circ), Top(rect), Bottom(rect))
  IN (CentreX(circ) - px) * (CentreX(circ) - px)
     + (CentreY(circ) - py) * (CentreY(circ) - py)

TheCircle == IF Arg1.isCircle THEN Arg1 ELSE Arg2
TheRect == IF Arg1.isCircle THEN Arg2 ELSE Arg1

\* the circle's centre lies diagonally outside a corner of the rectangle
OutsideCorner(circ, rect) ==
  /\ CentreX(circ) < Left(rect) \/ CentreX(circ) > Right(rect)
  /\ CentreY(circ) < Top(rect) \/ CentreY(circ) > Bottom(rect)

\* C7: a circle and a rectangle collide exactly when the closest point of the
\* effective rectangle is within r of the circle's centre; off a corner, at
\* distance exactly r they collide and further away they do not.
C7_CircleRectClosestPoint ==
  (Called("collide") /\ Arg1.isCircle # Arg2.isCircle)
  => Last.ret = Bool(ClosestDistSqrd(TheCircle, TheRect)
                       <= TheCircle.hitBounds.r * TheCircle.hitBounds.r)

\* a circle off a corner, exactly r away from it, was found colliding
C7_Witness ==
  /\ Called("collide") /\ Arg1.isCircle # Arg2.isCircle
  /\ OutsideCorner(TheCircle, TheRect)
  /\ TheCircle.hitBounds.r > 0
  /\ ClosestDistSqrd(TheCircle, TheRect)
       = TheCircle.hitBounds.r * TheCircle.hitBounds.r
  /\ Last.ret = Bool(TRUE)

(* ------------------------------- C8 ----------------------------------- *)

\* |x2 - (x0 + v0*dt + a0*dt^2/2)|, in units of 1 / (8 * One^2)
ClosedFormErr(x0, v0, a0, dt, x2) ==
  abs(8 * One * One * (x2 - x0) - 8 * One * dt * v0 - 4 * a0 * dt * dt)

\* |v1 - (v0 + a0*dt)|, in units of 1 / (2 * One)
VelocityErr(v0, a0, dt, v1) == abs(2 * One * (v1 - v0) - 2 * a0 * dt)

\* the rounding error stepPosition's two operations on the velocity can make
\* (half a spacing each), in units of 1 / (2 * One)
VelocityTol(v0, a0, dt) ==
  One * Quantum(v0 + Mul(dt, a0), 1) + Quantum(dt * a0, One)

\* the rounding error stepPosition's eight operations on one axis can make in
\* the position (half a spacing each, carried through the operations that
\* follow), in units of 1 / (8 * One^2)
PositionTol(x0, v0, a0, dt) ==
  LET p1 == Mul(dt, v0)
      h1 == Halve(p1)
      x1 == Add(x0, h1)
      v1 == Add(v0, Mul(dt, a0))
      p2 == Mul(dt, v1)
      h2 == Halve(p2)
  IN 4 * One * One * (Quantum(x1 + h2, 1) + Quantum(x0 + h1, 1))
     + 2 * One * One * (Quantum(p1, 2) + Quantum(p2, 2))
     + 2 * One * (Quantum(dt * v0, One) + Quantum(dt * v1, One))
     + abs(dt) * VelocityTol(v0, a0, dt)

\* none of stepPosition's operations on one axis rounds its result
NoRounding(x0, v0, a0, dt) ==
  LET p1 == Mul(dt, v0)
      h1 == Halve(p1)
      x1 == Add(x0, h1)
      q == Mul(dt, a0)
      v1 == Add(v0, q)
      p2 == Mul(dt, v1)
      h2 == Halve(p2)
  IN /\ p1 * One = dt * v0 /\ 2 * h1 = p1 /\ x1 = x0 + h1
     /\ q * One = dt * a0 /\ v1 = v0 + q
     /\ p2 * One = dt * v1 /\ 2 * h2 = p2 /\ Add(x1, h2) = x1 + h2

\* the rounding error of the four additions of a step and the step back
RoundTripTol(x0, v0, dt) ==
  LET h == Halve(Mul(dt, v0))
      x1 == Add(x0, h)
      x2 == Add(x1, h)
      x3 == Add(x2, -h)
  IN Quantum(x0 + h, 1) + Quantum(x1 + h, 1) + Quantum(x2 - h, 1)
     + Quantum(x3 - h, 1)

\* stepPosition writes x, y, vx and vy of its entity and nothing else
StepFrame ==
  /\ Res1 = [Arg1 EXCEPT !.x = Res1.x, !.y = Res1.y, !.vx = Res1.vx, !.vy = Res1.vy]
  /\ \A i \in {1, 2} : i # Last.a => ents[i] = before[i]

SteppedBack ==
  /\ Len(log) = 2 /\ log[1].op = "stepPosition" /\ log[2].op = "stepPosition"
  /\ log[2].dt = -log[1].dt
  /\ orig[1].ax = 0 /\ orig[1].ay = 0

\* C8 as stated: stepPosition leaves the position at exactly
\* x0 + v0*dt + a*dt^2/2 and the velocity at exactly v0 + a*dt on each axis,
\* changes nothing else, and with zero acceleration a step of dt followed by
\* a step of -dt returns x and y to their original values.
C8_ExactClosedForm ==
  /\ Called("stepPosition")
     => /\ ClosedFormErr(Arg1.x, Arg1.vx, Arg1.ax, Last.dt, Res1.x) = 0
        /\ ClosedFormErr(Arg1.y, Arg1.vy, Arg1.ay, Last.dt, Res1.y) = 0
        /\ VelocityErr(Arg1.vx, Arg1.ax, Last.dt, Res1.vx) = 0
        /\ VelocityErr(Arg1.vy, Arg1.ay, Last.dt, Res1.vy) = 0
        /\ StepFrame
  /\ SteppedBack => ents[1].x = orig[1].x /\ ents[1].y = orig[1].y

\* C8, amended: the position and the velocity agree with the closed forms up
\* to the rounding error of stepPosition's operations, and exactly when none
\* of them rounds; nothing else changes; a step of dt and a step of -dt with
\* zero acceleration return x and y up to the rounding of the four additions.
C8_ClosedFormToRounding ==
  /\ Called("stepPosition")
     => /\ ClosedFormErr(Arg1.x, Arg1.vx, Arg1.ax, Last.dt, Res1.x)
             <= PositionTol(Arg1.x, Arg1.vx, Arg1.ax, Last.dt)
        /\ ClosedFormErr(Arg1.y, Arg1.vy, Arg1.ay, Last.dt, Res1.y)
             <= PositionTol(Arg1.y, Arg1.vy, Arg1.ay, Last.dt)
        /\ VelocityErr(Arg1.vx, Arg1.ax, Last.dt, Res1.vx)
             <= VelocityTol(Arg1.vx, Arg1.ax, Last.dt)
        /\ VelocityErr(Arg1.vy, Arg1.ay, Last.dt, Res1.vy)
             <= VelocityTol(Arg1.vy, Arg1.ay, Last.dt)
        /\ NoRounding(Arg1.x, Arg1.vx, Arg1.ax, Last.dt)
             => /\ ClosedFormErr(Arg1.x, Arg1.vx, Arg1.ax, Last.dt, Res1.x) = 0
                /\ VelocityErr(Arg1.vx, Arg1.ax, Last.dt, Res1.vx) = 0
        /\ NoRounding(Arg1.y, Arg1.vy, Arg1.ay, Last.dt)
             => /\ ClosedFormErr(Arg1.y, Arg1.vy, Arg1.ay, Last.dt, Res1.y) = 0
                /\ VelocityErr(Arg1.vy, Arg1.ay, Last.dt, Res1.vy) = 0
        /\ StepFrame
  /\ SteppedBack
     => /\ 2 * abs(ents[1].x - orig[1].x)
             <= RoundTripTol(orig[1].x, orig[1].vx, log[1].dt)
        /\ 2 * abs(ents[1].y - orig[1].y)
             <= RoundTripTol(orig[1].y, orig[1].vy, log[1].dt)

\* an accelerated step was made without rounding and ended on the closed form
C8_Witness ==
  /\ Called("stepPosition") /\ Len(log) = 1
  /\ Last.dt # 0 /\ Arg1.ax # 0 /\ Arg1.vx # 0
  /\ NoRounding(Arg1.x, Arg1.vx, Arg1.ax, Last.dt)
  /\ ClosedFormErr(Arg1.x, Arg1.vx, Arg1.ax, Last.dt, Res1.x) = 0
  /\ Res1.x # Arg1.x /\ Res1.vx # Arg1.vx

====
